---- MODULE Spec2Model ----
(***************************************************************************)
(* House-price prediction service (src/app.py).                            *)
(*                                                                         *)
(* The module models                                                       *)
(*   - the process lifecycle: start, load_model(), train_model() with its  *)
(*     two joblib.dump calls, crashes, manual deletion of artifact files;  *)
(*   - the three HTTP handlers health_check, predict_price, model_info,    *)
(*     run by concurrent clients against the module-level globals          *)
(*     `model` and `scaler`.                                               *)
(*                                                                         *)
(* Numbers.  Every feature value of a request is an integer number of      *)
(* HALVES (3 bedrooms = 6, 0.5 bathrooms = 1).  The fitted parameters and  *)
(* the arithmetic of scaler.transform, model.predict, max and round are    *)
(* IEEE-754 double precision, each operation rounded as the hardware       *)
(* rounds it, and a returned price is an integer number of CENTS.  NaN,    *)
(* which float() and the JSON parser both produce, is a separate float     *)
(* value for which every comparison is false.                              *)
(***************************************************************************)
EXTENDS Integers, Sequences, FiniteSets, TLC

VARIABLES pc, mode, model, scaler, modelFile, scalerFile, runs,
          atCheck, trainedRun, loneModelDelete, clients

vars == <<pc, mode, model, scaler, modelFile, scalerFile, runs,
          atCheck, trainedRun, loneModelDelete, clients>>

(***************************************************************************)
(* Bounds                                                                  *)
(***************************************************************************)
MaxRuns == 3
NumClients == 2

Clients == 1..NumClients

(***************************************************************************)
(* Module-level data                                                       *)
(***************************************************************************)
None == [run |-> 0]

feature_names == <<"bedrooms", "bathrooms", "sqft_living", "floors", "age">>

Idx == 1..5

\* Range table of predict_price, in halves.
RangeMin == <<2, 1, 200, 2, 0>>
RangeMax == <<20, 20, 40000, 10, 400>>

RangeMsg ==
  <<"Bedrooms must be between 1 and 10",
    "Bathrooms must be between 0.5 and 10",
    "Square footage must be between 100 and 20,000",
    "Floors must be between 1 and 5",
    "Age must be between 0 and 200 years">>

MissingMsg ==
  <<"Missing required field: bedrooms",
    "Missing required field: bathrooms",
    "Missing required field: sqft_living",
    "Missing required field: floors",
    "Missing required field: age">>

MinPrice == 50000

(***************************************************************************)
(* JSON values of a request body                                           *)
(*   num     a JSON number, v halves                                       *)
(*   str     a string that float() parses, to v halves                     *)
(*   bool    true / false (v = 1 / 0)                                      *)
(*   bigint  a JSON integer literal beyond the float range (10**400)       *)
(*   nan     the literal NaN (json.loads accepts it) or the string "nan"   *)
(*   badstr  a string float() cannot parse                                 *)
(*   null, list, dict   JSON null, array, object                           *)
(*   missing the key is not in the body                                    *)
(***************************************************************************)
Val(k, v) == [k |-> k, v |-> v]

Missing == Val("missing", 0)

\* Python float(x)
PyFloat(x) ==
  CASE x.k = "num"    -> [t |-> "float", v |-> x.v]
    [] x.k = "str"    -> [t |-> "float", v |-> x.v]
    [] x.k = "bool"   -> [t |-> "float", v |-> 2 * x.v]
    [] x.k = "nan"    -> [t |-> "nan", v |-> 0]
    [] x.k = "bigint" -> [t |-> "OverflowError", v |-> 0]
    [] x.k = "badstr" -> [t |-> "ValueError", v |-> 0]
    [] OTHER          -> [t |-> "TypeError", v |-> 0]

IsFloat(f) == f.t \in {"float", "nan"}

\* f < b and f > b on floats; both are false for NaN
FloatLt(f, b) == f.t = "float" /\ f.v < b
FloatGt(f, b) == f.t = "float" /\ f.v > b

(***************************************************************************)
(* Request bodies: what request.get_json() yields                          *)
(*   dict     a JSON object; val[name] is the value, Missing if no key     *)
(*   list     a JSON array of strings; val[name] # Missing iff it holds    *)
(*            the string name                                              *)
(*   null     the JSON value null: get_json() returns None                 *)
(*   invalid  no body / unparsable body: get_json() raises                 *)
(***************************************************************************)
Body(kind, val) == [kind |-> kind, val |-> val]

NoVals == [i \in Idx |-> Missing]

Has(body, i) == body.val[i].k # "missing"

\* A response: HTTP status, the "error" member, the members of a prediction
\* (price in cents, features in halves), and in info the members of the
\* health and model-info bodies.
Resp(status, error, price, feats, info) ==
  [status |-> status, error |-> error, predicted_price |-> price,
   input_features |-> feats, info |-> info]

NoResp == Resp(0, "", 0, <<>>, <<>>)

\* lines 112, 125-133, 157
Err400(msg) == Resp(400, msg, 0, <<>>, <<>>)

\* line 159
Err500 == Resp(500, "Prediction failed", 0, <<>>, <<>>)

Min(S) == CHOOSE x \in S : \A y \in S : x <= y


(***************************************************************************)
(* Double precision.  The features, the fitted parameters and every        *)
(* intermediate result of lines 136-145 are IEEE-754 binary64 numbers: a   *)
(* sign, a 53-bit significand m and an exponent e, standing for m * 2^e.   *)
(* Each operation returns the exact result rounded to 53 bits, ties to     *)
(* even, as the hardware does.  A significand is a sequence of limbs in    *)
(* base 2^15, least significant first, without leading zeros; zero is the  *)
(* empty sequence.  Infinities and subnormals do not occur on the inputs   *)
(* the range checks let through.                                           *)
(***************************************************************************)
LimbBits == 15

Base == 32768

Limb(a, i) == IF i <= Len(a) THEN a[i] ELSE 0

MaxLen(a, b) == IF Len(a) >= Len(b) THEN Len(a) ELSE Len(b)

Smaller(i, j) == IF i <= j THEN i ELSE j

\* the number of limbs up to the last non-zero one
RECURSIVE Top(_, _)
Top(a, i) == IF i = 0 THEN 0 ELSE IF a[i] # 0 THEN i ELSE Top(a, i - 1)

Trim(a) == SubSeq(a, 1, Top(a, Len(a)))

RECURSIVE AddFrom(_, _, _, _)
AddFrom(a, b, i, carry) ==
  IF i > MaxLen(a, b) THEN (IF carry = 0 THEN <<>> ELSE <<carry>>)
  ELSE LET t == Limb(a, i) + Limb(b, i) + carry
       IN <<t % Base>> \o AddFrom(a, b, i + 1, t \div Base)

BigAdd(a, b) == AddFrom(a, b, 1, 0)

\* a - b for a >= b
RECURSIVE SubFrom(_, _, _, _)
SubFrom(a, b, i, borrow) ==
  IF i > Len(a) THEN <<>>
  ELSE LET t == a[i] - Limb(b, i) - borrow
       IN IF t < 0 THEN <<t + Base>> \o SubFrom(a, b, i + 1, 1)
                   ELSE <<t>> \o SubFrom(a, b, i + 1, 0)

BigSub(a, b) == Trim(SubFrom(a, b, 1, 0))

RECURSIVE CmpFrom(_, _, _)
CmpFrom(a, b, i) ==
  IF i = 0 THEN 0
  ELSE IF Limb(a, i) > Limb(b, i) THEN 1
  ELSE IF Limb(a, i) < Limb(b, i) THEN -1
  ELSE CmpFrom(a, b, i - 1)

BigCmp(a, b) == CmpFrom(a, b, MaxLen(a, b))

BigGeq(a, b) == BigCmp(a, b) >= 0

\* a * k for one limb k
RECURSIVE MulSmallFrom(_, _, _, _)
MulSmallFrom(a, k, i, carry) ==
  IF i > Len(a) THEN (IF carry = 0 THEN <<>> ELSE <<carry>>)
  ELSE LET t == a[i] * k + carry
       IN <<t % Base>> \o MulSmallFrom(a, k, i + 1, t \div Base)

BigMulSmall(a, k) == MulSmallFrom(a, k, 1, 0)

\* a * Base^n
Shift(a, n) == IF a = <<>> THEN <<>> ELSE [i \in 1..n |-> 0] \o a

RECURSIVE MulFrom(_, _, _)
MulFrom(a, b, j) ==
  IF j > Len(b) THEN <<>>
  ELSE BigAdd(Shift(BigMulSmall(a, b[j]), j - 1), MulFrom(a, b, j + 1))

BigMul(a, b) == Trim(MulFrom(a, b, 1))

RECURSIVE Pow2(_)
Pow2(k) == IF k = 0 THEN 1 ELSE 2 * Pow2(k - 1)

RECURSIVE SmallBits(_)
SmallBits(n) == IF n = 0 THEN 0 ELSE 1 + SmallBits(n \div 2)

\* the number of bits of a
BitLen(a) ==
  IF a = <<>> THEN 0 ELSE LimbBits * (Len(a) - 1) + SmallBits(a[Len(a)])

\* a * 2^s
ShiftLeft(a, s) ==
  Shift(BigMulSmall(a, Pow2(s % LimbBits)), s \div LimbBits)

\* long division: the largest limb q in lo..hi with q * d <= r
RECURSIVE QDigit(_, _, _, _)
QDigit(r, d, lo, hi) ==
  IF lo = hi THEN lo
  ELSE LET mid == (lo + hi + 1) \div 2
       IN IF BigGeq(r, BigMulSmall(d, mid))
            THEN QDigit(r, d, mid, hi)
            ELSE QDigit(r, d, lo, mid - 1)

\* d has its top limb at least Base / 2, so the two top limbs of r divided
\* by the top limb of d overshoot the quotient limb by two at most
RECURSIVE DivFrom(_, _, _, _)
DivFrom(n, d, i, rem) ==
  IF i = 0 THEN <<>>
  ELSE LET r == <<n[i]>> \o rem
           top == Limb(r, Len(d) + 1) * Base + Limb(r, Len(d))
           est == Smaller(Base - 1, top \div d[Len(d)])
           q == QDigit(r, d, IF est > 2 THEN est - 2 ELSE 0, est)
       IN DivFrom(n, d, i - 1, BigSub(r, BigMulSmall(d, q))) \o <<q>>

\* floor(n / d) for d > 0, both scaled until the top limb of d is full
BigDiv(n, d) ==
  LET k == LimbBits - SmallBits(d[Len(d)])
      nn == ShiftLeft(n, k)
  IN Trim(DivFrom(nn, ShiftLeft(d, k), Len(nn), <<>>))

RECURSIVE IntLimbs(_)
IntLimbs(n) == IF n = 0 THEN <<>> ELSE <<n % Base>> \o IntLimbs(n \div Base)

RECURSIVE LimbsInt(_, _)
LimbsInt(a, i) == IF i > Len(a) THEN 0 ELSE a[i] + Base * LimbsInt(a, i + 1)

\* a \div k for one limb k
RECURSIVE DivSmallFrom(_, _, _, _)
DivSmallFrom(a, k, i, rem) ==
  IF i = 0 THEN <<>>
  ELSE LET t == rem * Base + a[i]
       IN DivSmallFrom(a, k, i - 1, t % k) \o <<t \div k>>

\* floor(a / 2^s)
ShiftRight(a, s) ==
  LET w == s \div LimbBits
      b == IF w >= Len(a) THEN <<>> ELSE SubSeq(a, w + 1, Len(a))
  IN Trim(DivSmallFrom(b, Pow2(s % LimbBits), Len(b), 0))

\* floor(a / 2^s), or the next whole number when the bits dropped are more
\* than half, or exactly half and the floor is odd
RoundShift(a, s) ==
  LET q == ShiftRight(a, s)
      c == BigCmp(BigSub(a, ShiftLeft(q, s)), ShiftLeft(<<1>>, s - 1))
  IN IF c > 0 \/ (c = 0 /\ Limb(q, 1) % 2 = 1) THEN BigAdd(q, <<1>>) ELSE q

Float(neg, m, e) == [neg |-> neg, m |-> m, e |-> e]

\* the double nearest to n * 2^e for a whole number n, ties to even
RoundF(neg, n, e) ==
  LET len == BitLen(n)
  IN IF len = 0 THEN Float(FALSE, <<>>, 0)
     ELSE IF len <= 53 THEN Float(neg, ShiftLeft(n, 53 - len), e - (53 - len))
     ELSE LET s == len - 53
              q == RoundShift(n, s)
          IN IF BitLen(q) > 53 THEN Float(neg, ShiftRight(q, 1), e + s + 1)
                               ELSE Float(neg, q, e + s)

\* the double nearest to (n / d) * 2^e for whole numbers n and d > 0: the
\* quotient to at least 55 bits, and one more bit that says whether a
\* remainder was left
RoundRatio(neg, n, d, e) ==
  LET s == IF 55 + BitLen(d) > BitLen(n) THEN 55 + BitLen(d) - BitLen(n) ELSE 0
      nn == ShiftLeft(n, s)
      q == BigDiv(nn, d)
      q2 == IF BigCmp(BigMul(q, d), nn) = 0
              THEN ShiftLeft(q, 1)
              ELSE BigAdd(ShiftLeft(q, 1), <<1>>)
  IN RoundF(neg, q2, e - s - 1)

FNeg(x) == Float(~x.neg, x.m, x.e)

FIsNeg(x) == x.neg /\ x.m # <<>>

\* x + y
FAdd(x, y) ==
  IF x.m = <<>> THEN y
  ELSE IF y.m = <<>> THEN x
  ELSE LET e == Smaller(x.e, y.e)
           a == ShiftLeft(x.m, x.e - e)
           b == ShiftLeft(y.m, y.e - e)
       IN IF x.neg = y.neg THEN RoundF(x.neg, BigAdd(a, b), e)
          ELSE IF BigGeq(a, b) THEN RoundF(x.neg, BigSub(a, b), e)
          ELSE RoundF(y.neg, BigSub(b, a), e)

\* x - y
FSub(x, y) == FAdd(x, FNeg(y))

\* x > y
FGt(x, y) == LET d == FSub(x, y) IN ~d.neg /\ d.m # <<>>

\* x * y
FMul(x, y) ==
  IF x.m = <<>> \/ y.m = <<>> THEN Float(FALSE, <<>>, 0)
  ELSE RoundF(x.neg # y.neg, BigMul(x.m, y.m), x.e + y.e)

\* x / y
FDiv(x, y) ==
  IF x.m = <<>> THEN Float(FALSE, <<>>, 0)
  ELSE RoundRatio(x.neg # y.neg, x.m, y.m, x.e - y.e)

\* a whole number as a float
FInt(n) == RoundF(FALSE, IntLimbs(n), 0)

\* a feature of h halves as a float
FHalves(h) == RoundF(FALSE, IntLimbs(h), -1)

\* the nearest whole number, ties to even (numpy.rint)
FRint(x) ==
  LET v == IF x.e >= 0 THEN ShiftLeft(x.m, x.e) ELSE RoundShift(x.m, 0 - x.e)
  IN IF x.neg THEN -LimbsInt(v, 1) ELSE LimbsInt(v, 1)

TenTo16 == BigMul(IntLimbs(100000000), IntLimbs(100000000))

\* the double written i.f1f2f3f4 in decimal, four digits in each of f1..f4:
\* the double nearest to that decimal, as float() reads it
D(i, f1, f2, f3, f4) ==
  LET n1 == BigAdd(BigMulSmall(IntLimbs(i), 10000), IntLimbs(f1))
      n2 == BigAdd(BigMulSmall(n1, 10000), IntLimbs(f2))
      n3 == BigAdd(BigMulSmall(n2, 10000), IntLimbs(f3))
      n4 == BigAdd(BigMulSmall(n3, 10000), IntLimbs(f4))
  IN RoundRatio(FALSE, n4, TenTo16, 0)

(***************************************************************************)
(* Fitted artifacts.  create_sample_data seeds the generator (line 22) and *)
(* train_test_split has random_state=42 (line 60), so every training run   *)
(* fits the same numbers: scaler.mean_, scaler.scale_, model.coef_ and     *)
(* model.intercept_ of the 800 training rows, below as the shortest        *)
(* decimals that name the doubles.  An artifact is identified by the       *)
(* training run that produced it; its parameters are those numbers.        *)
(***************************************************************************)
\* StandardScaler.mean_
FitMean ==
  <<D(3, 425, 0, 0, 0),
    D(2, 4850, 9931, 4760, 1335),
    D(3035, 6537, 5000, 0, 0),
    D(2, 437, 5000, 0, 0),
    D(24, 8150, 0, 0, 0)>>

\* StandardScaler.scale_
FitScale ==
  <<D(1, 4381, 2160, 4733, 630),
    D(0, 8680, 506, 7823, 8814),
    D(1216, 6542, 6944, 5900, 4000),
    D(0, 6896, 2739, 334, 8097),
    D(13, 9514, 6139, 2986, 7580)>>

\* LinearRegression.coef_, dollars per standard unit
FitCoef ==
  <<D(20970, 610, 4940, 7457, 0),
    D(17654, 6866, 9199, 304, 0),
    D(182446, 5070, 7147, 9540, 0),
    D(5747, 3872, 1381, 7417, 0),
    FNeg(D(28714, 8728, 9889, 1340, 0))>>

\* LinearRegression.intercept_, dollars
FitIntercept == D(721501, 4756, 9853, 5100, 0)

ScalerArtifact(r) == [run |-> r]
ModelArtifact(r) == [run |-> r]

\* the attributes of a fitted scaler and of a fitted model
mean_(sc) == FitMean
scale_(sc) == FitScale
coef_(m) == FitCoef
intercept_(m) == FitIntercept

\* file contents
Absent == [run |-> 0]
Corrupt == [run |-> -1]

Exists(file) == file # Absent
IsArtifact(x) == x.run > 0

(***************************************************************************)
(* predict_price, lines 104-133: get_json, required fields, float(),       *)
(* range checks.  The result is the error response, or NoResp with the     *)
(* feature list when validation passes.                                    *)
(***************************************************************************)
MissingFields(body) == {i \in Idx : ~Has(body, i)}

Coerced(body) == [i \in Idx |-> PyFloat(body.val[i])]

Raising(feats) == {i \in Idx : ~IsFloat(feats[i])}

OutOfRange(feats) ==
  {i \in Idx : FloatLt(feats[i], RangeMin[i]) \/ FloatGt(feats[i], RangeMax[i])}

Validated(resp, feats) == [resp |-> resp, features |-> feats]

Validate(body) ==
  IF body.kind = "invalid" THEN Validated(Err500, <<>>)
  ELSE IF body.kind = "null" THEN Validated(Err500, <<>>)
  ELSE IF MissingFields(body) # {}
    THEN Validated(Err400(MissingMsg[Min(MissingFields(body))]), <<>>)
  ELSE IF body.kind = "list" THEN Validated(Err500, <<>>)
  ELSE LET feats == Coerced(body) IN
    IF Raising(feats) # {}
      THEN IF feats[Min(Raising(feats))].t = "ValueError"
             THEN Validated(Err400("Invalid input data"), <<>>)
             ELSE Validated(Err500, <<>>)
    ELSE IF OutOfRange(feats) # {}
      THEN Validated(Err400(RangeMsg[Min(OutOfRange(feats))]), <<>>)
    ELSE Validated(NoResp, feats)

(***************************************************************************)
(* predict_price, line 136: scaler.transform([features]), which is         *)
(* (x - mean_) / scale_ per feature; NaN stays NaN (StandardScaler lets    *)
(* NaN through).                                                           *)
(***************************************************************************)
ScalerTransform(sc, feats) ==
  [i \in Idx |->
     IF feats[i].t = "nan" THEN [t |-> "nan", x |-> FInt(0)]
     ELSE [t |-> "float",
           x |-> FDiv(FSub(FHalves(feats[i].v), mean_(sc)[i]), scale_(sc)[i])]]

(***************************************************************************)
(* predict_price, line 139: model.predict(features_scaled)[0], which is    *)
(* features_scaled @ coef_ + intercept_, in dollars; the five products are *)
(* summed in the order of the features.                                    *)
(***************************************************************************)
RECURSIVE Dot(_, _, _)
Dot(coef, z, i) ==
  IF i = 0 THEN FInt(0)
  ELSE FAdd(Dot(coef, z, i - 1), FMul(z[i].x, coef[i]))

ModelPredict(m, z) == FAdd(Dot(coef_(m), z, 5), intercept_(m))

HasNaN(z) == \E i \in Idx : z[i].t = "nan"

\* the floor forgotten
Clamp_NoFloor(p) == p

\* line 142: max(prediction, 50000)
Clamp(p) == IF FGt(FInt(MinPrice), p) THEN FInt(MinPrice) ELSE p

\* line 145: round(prediction, 2) of a numpy float, which is
\* rint(prediction * 100) / 100; the result as its number of cents
Round2(p) == FRint(FMul(p, FInt(100)))

\* lines 144-154: the 200 response.  predicted_price is in cents;
\* input_features in halves
Success(p, feats) ==
  Resp(200, "", Round2(Clamp(p)), [i \in Idx |-> feats[i].v], <<>>)

FeatureDescriptions ==
  <<"Number of bedrooms (1-10)",
    "Number of bathrooms (0.5-10)",
    "Living area in square feet (100-20,000)",
    "Number of floors (1-5)",
    "Age of the house in years (0-200)">>

\* the readiness test forgotten
model_info_NoCheck(m) ==
  Resp(200, "", 0, <<>>,
       <<"Linear Regression", feature_names, FeatureDescriptions>>)

\* lines 161-177
model_info(m) ==
  IF m = None THEN Resp(500, "Model not loaded", 0, <<>>, <<>>)
  ELSE Resp(200, "", 0, <<>>,
            <<"Linear Regression", feature_names, FeatureDescriptions>>)

\* health made to depend on the model being loaded
health_check_Ready ==
  IF model = None
    THEN Resp(503, "Model not loaded", 0, <<>>, <<>>)
    ELSE Resp(200, "", 0, <<>>,
              <<"healthy", "House Price Prediction API is running">>)

\* lines 96-99
health_check ==
  Resp(200, "", 0, <<>>, <<"healthy", "House Price Prediction API is running">>)


\* predict_price as one function of the body and the two globals
predict_price(body, m, sc) ==
  LET v == Validate(body) IN
  IF v.resp # NoResp THEN v.resp
  ELSE IF sc = None THEN Err500
  ELSE LET z == ScalerTransform(sc, v.features) IN
    IF m = None THEN Err500
    ELSE IF HasNaN(z) THEN Err400("Invalid input data")
    ELSE Success(ModelPredict(m, z), v.features)

(***************************************************************************)
(* Requests                                                                *)
(***************************************************************************)
Num(v) == Val("num", v)

\* the values tried for feature i: around both bounds, and every kind
FieldVals(i) ==
  {Missing, Num(RangeMin[i] - 1), Num(RangeMin[i]), Num(RangeMax[i]),
   Num(RangeMax[i] + 1), Val("badstr", 0), Val("null", 0)}
  \cup (CASE i = 1 -> {Val("bigint", 0), Val("str", 6), Val("bool", 1)}
          [] i = 2 -> {Val("nan", 0)}
          [] i = 3 -> {Val("bigint", 0)}
          [] i = 4 -> {Val("str", 14), Val("dict", 0)}
          [] i = 5 -> {Val("nan", 0), Val("list", 0), Val("bool", 0)})

DictBodies ==
  {Body("dict", <<a, b, c, d, e>>) :
     a \in FieldVals(1), b \in FieldVals(2), c \in FieldVals(3),
     d \in FieldVals(4), e \in FieldVals(5)}

ListBodies ==
  {Body("list", [i \in Idx |-> IF i \in S THEN Val("elem", 0) ELSE Missing]) :
     S \in SUBSET Idx}

AllBodies ==
  DictBodies \cup ListBodies \cup {Body("null", NoVals), Body("invalid", NoVals)}

\* {"bedrooms":3,"bathrooms":2,"sqft_living":1800,"floors":1,"age":10}
ExampleBody == Body("dict", <<Num(6), Num(4), Num(3600), Num(2), Num(20)>>)

\* the bodies sent while the whole lifecycle is explored
Bodies ==
  {ExampleBody,
   Body("dict", <<Num(0), Num(4), Num(3600), Num(2), Num(20)>>),
   Body("dict", <<Num(6), Val("null", 0), Num(3600), Num(2), Num(20)>>)}

Req(route, body) == [route |-> route, body |-> body]

Client(p, req, z, resp) == [pc |-> p, req |-> req, z |-> z, resp |-> resp]

NoReq == Req("none", Body("null", NoVals))

Idle == Client("idle", NoReq, <<>>, NoResp)

\* the handler of client c returns resp for request req
Respond(c, req, resp) ==
  clients' = [clients EXCEPT ![c] = Client("idle", req, <<>>, resp)]

(***************************************************************************)
(* Process lifecycle                                                       *)
(***************************************************************************)
\* the test looks for a file name that is never written
ArtifactsPresent_WrongName(mf, sf) == Exists(Absent) /\ Exists(sf)

\* line 88
ArtifactsPresent(mf, sf) == Exists(mf) /\ Exists(sf)

\* the two dumps in the other order
SaveOrder_Swapped == <<"scaler", "model">>

\* lines 81-82: the order of the two joblib.dump calls
SaveOrder == <<"model", "scaler">>

OpenPc == <<"dump1_open", "dump2_open">>
WritePc == <<"dump1_write", "dump2_write">>

Init ==
  /\ pc = "down"
  /\ mode = "main"
  /\ model = None
  /\ scaler = None
  /\ modelFile = Absent
  /\ scalerFile = Absent
  /\ runs = 0
  /\ atCheck = <<Absent, Absent>>
  /\ trainedRun = 0
  /\ loneModelDelete = FALSE
  /\ clients = [c \in Clients |-> Idle]

\* The interpreter starts: module globals are None (lines 16-17).
\* "main" runs the __main__ block (lines 179-185); "wsgi" is the module
\* imported by a server, which serves app without calling load_model().
Start(m) ==
  /\ pc = "down"
  /\ pc' = IF m = "main" THEN "load" ELSE "serving"
  /\ mode' = m
  /\ model' = None
  /\ scaler' = None
  /\ atCheck' = <<Absent, Absent>>
  /\ trainedRun' = 0
  /\ clients' = [c \in Clients |-> Idle]
  /\ UNCHANGED <<modelFile, scalerFile, runs, loneModelDelete>>

\* the process ends: killed, or an exception escaped load_model()
Exit ==
  /\ pc' = "down"
  /\ model' = None
  /\ scaler' = None
  /\ clients' = [c \in Clients |-> Idle]
  /\ UNCHANGED <<mode, modelFile, scalerFile, runs, atCheck, trainedRun,
                 loneModelDelete>>

Kill ==
  /\ pc # "down"
  /\ Exit

\* line 88
LoadCheck ==
  /\ pc = "load"
  /\ atCheck' = <<modelFile, scalerFile>>
  /\ pc' = IF ArtifactsPresent(modelFile, scalerFile)
             THEN "load_model" ELSE "train_scaler"
  /\ UNCHANGED <<mode, model, scaler, modelFile, scalerFile, runs,
                 trainedRun, loneModelDelete, clients>>

\* line 89; joblib.load raises on a truncated file
LoadModelFile ==
  /\ pc = "load_model"
  /\ IF IsArtifact(modelFile)
       THEN /\ model' = modelFile
            /\ pc' = "load_scaler"
            /\ UNCHANGED <<mode, scaler, modelFile, scalerFile, runs, atCheck,
                           trainedRun, loneModelDelete, clients>>
       ELSE Exit

\* line 90
LoadScalerFile ==
  /\ pc = "load_scaler"
  /\ IF IsArtifact(scalerFile)
       THEN /\ scaler' = scalerFile
            /\ pc' = "serving"
            /\ UNCHANGED <<mode, model, modelFile, scalerFile, runs, atCheck,
                           trainedRun, loneModelDelete, clients>>
       ELSE Exit

\* lines 53-65: data, split, scaler = StandardScaler().fit
TrainScaler ==
  /\ pc = "train_scaler"
  /\ runs < MaxRuns
  /\ runs' = runs + 1
  /\ trainedRun' = runs + 1
  /\ scaler' = ScalerArtifact(runs + 1)
  /\ pc' = "train_model"
  /\ UNCHANGED <<mode, model, modelFile, scalerFile, atCheck,
                 loneModelDelete, clients>>

\* lines 67-78: model = LinearRegression().fit
TrainModel ==
  /\ pc = "train_model"
  /\ model' = ModelArtifact(trainedRun)
  /\ pc' = OpenPc[1]
  /\ UNCHANGED <<mode, scaler, modelFile, scalerFile, runs, atCheck,
                 trainedRun, loneModelDelete, clients>>

\* joblib.dump opens its target for writing, which truncates it
DumpOpen(i) ==
  /\ pc = OpenPc[i]
  /\ IF SaveOrder[i] = "model"
       THEN modelFile' = Corrupt /\ UNCHANGED scalerFile
       ELSE scalerFile' = Corrupt /\ UNCHANGED modelFile
  /\ pc' = WritePc[i]
  /\ UNCHANGED <<mode, model, scaler, runs, atCheck, trainedRun,
                 loneModelDelete, clients>>

\* joblib.dump has written the whole object
DumpWrite(i) ==
  /\ pc = WritePc[i]
  /\ IF SaveOrder[i] = "model"
       THEN modelFile' = model /\ UNCHANGED scalerFile
       ELSE scalerFile' = scaler /\ UNCHANGED modelFile
  /\ pc' = IF i = 1 THEN OpenPc[2] ELSE "serving"
  /\ UNCHANGED <<mode, model, scaler, runs, atCheck, trainedRun,
                 loneModelDelete, clients>>

\* an operator removes an artifact file while the process is down
DeleteFile(which) ==
  /\ pc = "down"
  /\ IF which = "model"
       THEN /\ Exists(modelFile)
            /\ modelFile' = Absent
            /\ loneModelDelete' = (loneModelDelete \/ IsArtifact(scalerFile))
            /\ UNCHANGED scalerFile
       ELSE /\ Exists(scalerFile)
            /\ scalerFile' = Absent
            /\ UNCHANGED <<modelFile, loneModelDelete>>
  /\ UNCHANGED <<pc, mode, model, scaler, runs, atCheck, trainedRun, clients>>

(***************************************************************************)
(* Request handling, one thread per client                                 *)
(***************************************************************************)
frame == <<pc, mode, model, scaler, modelFile, scalerFile, runs, atCheck,
           trainedRun, loneModelDelete>>

\* lines 96-99
HandleHealth(c) ==
  /\ pc = "serving"
  /\ clients[c].pc = "idle"
  /\ Respond(c, Req("health", Body("null", NoVals)), health_check)
  /\ UNCHANGED frame

\* lines 161-177
HandleModelInfo(c) ==
  /\ pc = "serving"
  /\ clients[c].pc = "idle"
  /\ Respond(c, Req("model-info", Body("null", NoVals)), model_info(model))
  /\ UNCHANGED frame

\* lines 104-133: the request arrives and is validated; only locals are
\* touched
PredictValidate(c, body) ==
  /\ pc = "serving"
  /\ clients[c].pc = "idle"
  /\ LET v == Validate(body) IN
       IF v.resp # NoResp
         THEN Respond(c, Req("predict", body), v.resp)
         ELSE clients' = [clients EXCEPT
                ![c] = Client("scale", Req("predict", body), <<>>, NoResp)]
  /\ UNCHANGED frame

\* "scaler = scaler.transform(..)": the global is overwritten by the handler
PredictScale_Clobber(c) ==
  /\ pc = "serving"
  /\ clients[c].pc = "scale"
  /\ IF scaler = None
       THEN Respond(c, clients[c].req, Err500) /\ UNCHANGED scaler
       ELSE /\ clients' = [clients EXCEPT
                 ![c].pc = "predict",
                 ![c].z = ScalerTransform(scaler, Coerced(clients[c].req.body))]
            /\ scaler' = Corrupt
  /\ UNCHANGED <<pc, mode, model, modelFile, scalerFile, runs, atCheck,
                 trainedRun, loneModelDelete>>

\* line 136: None has no attribute transform.  On a NaN feature the
\* installed scikit-learn decides where the ValueError is raised: current
\* releases let NaN through transform and raise in predict (line 139),
\* older ones raise in transform already.
PredictScale(c) ==
  /\ pc = "serving"
  /\ clients[c].pc = "scale"
  /\ IF scaler = None
       THEN Respond(c, clients[c].req, Err500)
       ELSE \/ clients' = [clients EXCEPT
                 ![c].pc = "predict",
                 ![c].z = ScalerTransform(scaler, Coerced(clients[c].req.body))]
            \/ /\ HasNaN(Coerced(clients[c].req.body))
               /\ Respond(c, clients[c].req, Err400("Invalid input data"))
  /\ UNCHANGED frame

\* lines 139-154: LinearRegression.predict raises ValueError on NaN input
PredictModel(c) ==
  /\ pc = "serving"
  /\ clients[c].pc = "predict"
  /\ IF model = None THEN Respond(c, clients[c].req, Err500)
     ELSE IF HasNaN(clients[c].z)
       THEN Respond(c, clients[c].req, Err400("Invalid input data"))
     ELSE Respond(c, clients[c].req,
                  Success(ModelPredict(model, clients[c].z),
                          Coerced(clients[c].req.body)))
  /\ UNCHANGED frame

Next ==
  \/ \E m \in {"main", "wsgi"} : Start(m)
  \/ Kill
  \/ LoadCheck
  \/ LoadModelFile
  \/ LoadScalerFile
  \/ TrainScaler
  \/ TrainModel
  \/ \E i \in 1..2 : DumpOpen(i)
  \/ \E i \in 1..2 : DumpWrite(i)
  \/ \E w \in {"model", "scaler"} : DeleteFile(w)
  \/ \E c \in Clients : HandleHealth(c)
  \/ \E c \in Clients : HandleModelInfo(c)
  \/ \E c \in Clients, b \in Bodies : PredictValidate(c, b)
  \/ \E c \in Clients : PredictScale(c)
  \/ \E c \in Clients : PredictModel(c)

Spec == Init /\ [][Next]_vars

(***************************************************************************)
(* predict_price over the whole input space: a process that is serving,    *)
(* either after a first start through load_model() or imported without     *)
(* it, receives one request, drawn from AllBodies.                         *)
(***************************************************************************)
InitPredict ==
  /\ pc = "serving"
  /\ mode \in {"main", "wsgi"}
  /\ model = IF mode = "main" THEN ModelArtifact(1) ELSE None
  /\ scaler = IF mode = "main" THEN ScalerArtifact(1) ELSE None
  /\ modelFile = model
  /\ scalerFile = scaler
  /\ runs = IF mode = "main" THEN 1 ELSE 0
  /\ atCheck = <<Absent, Absent>>
  /\ trainedRun = runs
  /\ loneModelDelete = FALSE
  /\ clients = [c \in Clients |-> Idle]

NextPredict ==
  \/ clients[1] = Idle /\ \E b \in AllBodies : PredictValidate(1, b)
  \/ \E c \in Clients : PredictScale(c)
  \/ \E c \in Clients : PredictModel(c)

SpecPredict == InitPredict /\ [][NextPredict]_vars


(***************************************************************************)
(* Properties                                                              *)
(***************************************************************************)
\* a finished POST /api/predict exchange of client c
Answered(c) ==
  /\ clients[c].pc = "idle"
  /\ clients[c].req.route = "predict"
  /\ clients[c].resp # NoResp

BodyOf(c) == clients[c].req.body
RespOf(c) == clients[c].resp

\* the request's notions, read off the JSON value itself
IsNumeric(x) == x.k \in {"num", "str", "bool", "bigint"}
IsNonNumeric(x) == x.k \in {"badstr", "null", "list", "dict"}
Below(i, x) ==
  \/ x.k \in {"num", "str"} /\ x.v < RangeMin[i]
  \/ x.k = "bool" /\ 2 * x.v < RangeMin[i]
Above(i, x) ==
  \/ x.k \in {"num", "str"} /\ x.v > RangeMax[i]
  \/ x.k = "bool" /\ 2 * x.v > RangeMax[i]
  \/ x.k = "bigint"
Violating(b) == {i \in Idx : Below(i, b.val[i]) \/ Above(i, b.val[i])}
AllPresent(b) == b.kind = "dict" /\ \A i \in Idx : b.val[i] # Missing
AllNumeric(b) == AllPresent(b) /\ \A i \in Idx : IsNumeric(b.val[i])
ValidBody(b) == AllNumeric(b) /\ Violating(b) = {}
MissingIn(b) == IF b.kind = "dict" THEN {i \in Idx : b.val[i] = Missing} ELSE Idx
Loaded == model # None /\ scaler # None

\* C1: with model and scaler loaded, a request whose five fields are numeric
\* and inside the ranges is answered 200 with predicted_price >= 50000,
\* whatever the raw prediction is.
C1_PriceFloor ==
  \A c \in Clients :
    (Answered(c) /\ mode = "main" /\ Loaded /\ ValidBody(BodyOf(c)))
      => /\ RespOf(c).status = 200
         /\ RespOf(c).predicted_price >= MinPrice * 100

\* a valid request whose raw prediction was below the floor has been answered
C1_Witness ==
  \E c \in Clients :
    /\ Answered(c) /\ mode = "main" /\ Loaded /\ ValidBody(BodyOf(c))
    /\ FIsNeg(ModelPredict(model, ScalerTransform(scaler, Coerced(BodyOf(c)))))
    /\ RespOf(c).predicted_price = MinPrice * 100

\* C2: every request body that lacks one of the five fields, the null and
\* the empty body included, is answered 400 with the message naming the first
\* missing field in declared order.
C2_MissingField ==
  \A c \in Clients :
    (Answered(c) /\ MissingIn(BodyOf(c)) # {})
      => /\ RespOf(c).status = 400
         /\ RespOf(c).error = MissingMsg[Min(MissingIn(BodyOf(c)))]

\* C3: when all five fields are present and numeric, the answer is 400 exactly
\* when some feature is strictly outside its range, and the message is that
\* of the first violating feature in declared order.
C3_RangeCheck ==
  \A c \in Clients :
    (Answered(c) /\ AllNumeric(BodyOf(c)))
      => /\ (RespOf(c).status = 400) <=> (Violating(BodyOf(c)) # {})
         /\ Violating(BodyOf(c)) # {}
              => RespOf(c).error = RangeMsg[Min(Violating(BodyOf(c)))]

\* C4: when all five fields are present and one of them is a non-numeric
\* string, null, a list or an object, the answer is 400 with the conversion
\* error, whatever the other fields are.
C4_NonNumeric ==
  \A c \in Clients :
    (Answered(c) /\ AllPresent(BodyOf(c))
       /\ \E i \in Idx : IsNonNumeric(BodyOf(c).val[i]))
      => /\ RespOf(c).status = 400
         /\ RespOf(c).error = "Invalid input data"


FailsValidation(b) ==
  \/ MissingIn(b) # {}
  \/ AllPresent(b) /\ \E i \in Idx : IsNonNumeric(b.val[i])
  \/ AllNumeric(b) /\ Violating(b) # {}

\* C9: while model or scaler is absent, a valid request is answered 500 with
\* an error message, a request that fails validation (missing, non-numeric
\* or out-of-range field) is answered 400, and no request makes the model
\* available.
C9_Unready ==
  /\ [](\A c \in Clients :
          (Answered(c) /\ ~Loaded)
            => /\ ValidBody(BodyOf(c))
                    => RespOf(c).status = 500 /\ RespOf(c).error # ""
               /\ FailsValidation(BodyOf(c)) => RespOf(c).status = 400)
  /\ [][(pc = "serving" /\ pc' = "serving" /\ ~Loaded) => ~Loaded']_vars

\* load_model() has returned and the server runs
Served == pc = "serving" /\ mode = "main"

\* C5: when load_model() has returned, model and scaler are set and both
\* files hold complete artifacts; if both files existed at the test of
\* line 88 nothing was trained and neither file was written, otherwise this
\* process trained and both files hold the artifacts of that run.
C5_LoadModel ==
  Served =>
    /\ Loaded
    /\ IsArtifact(modelFile) /\ IsArtifact(scalerFile)
    /\ model = modelFile /\ scaler = scalerFile
    /\ IF Exists(atCheck[1]) /\ Exists(atCheck[2])
         THEN /\ trainedRun = 0
              /\ modelFile = atCheck[1]
              /\ scalerFile = atCheck[2]
         ELSE /\ trainedRun > 0
              /\ modelFile.run = trainedRun
              /\ scalerFile.run = trainedRun

\* load_model() found only house_price_model.pkl, trained, and returned
C5_Witness ==
  /\ Served
  /\ Exists(atCheck[1]) /\ ~Exists(atCheck[2])
  /\ scalerFile.run = trainedRun

\* C6: while the server runs, no step of any request handler changes the
\* in-memory model or scaler or either artifact file.
C6_ReadOnly ==
  [][(pc = "serving" /\ pc' = "serving")
       => UNCHANGED <<model, scaler, modelFile, scalerFile>>]_vars

\* one request has succeeded and another has failed, on loaded artifacts
C6_Witness ==
  /\ Served
  /\ \E c, d \in Clients :
       /\ Answered(c) /\ RespOf(c).status = 200
       /\ Answered(d) /\ RespOf(d).status \in {400, 500}

\* a finished exchange of client c on the given route
AnsweredOn(c, route) ==
  /\ clients[c].pc = "idle"
  /\ clients[c].req.route = route
  /\ clients[c].resp # NoResp

\* C7: GET /api/model-info answers 500 exactly when the model or the scaler
\* is absent, and otherwise 200 with the model type, the five feature names
\* in declared order and the fixed descriptions.
C7_ModelInfo ==
  \A c \in Clients :
    AnsweredOn(c, "model-info") =>
      IF model = None \/ scaler = None
        THEN RespOf(c).status = 500
        ELSE /\ RespOf(c).status = 200
             /\ RespOf(c).info =
                  <<"Linear Regression",
                    <<"bedrooms", "bathrooms", "sqft_living", "floors", "age">>,
                    FeatureDescriptions>>

\* model-info has been answered 500 by a process that never loaded a model
C7_Witness ==
  \E c \in Clients :
    AnsweredOn(c, "model-info") /\ ~Loaded /\ RespOf(c).status = 500

\* C8: GET /api/health answers 200 with status "healthy" whether or not a
\* model is loaded, and handling it changes no model state.
C8_Health ==
  /\ [](\A c \in Clients :
          AnsweredOn(c, "health")
            => RespOf(c).status = 200 /\ RespOf(c).info[1] = "healthy")
  /\ [][\A c \in Clients :
          HandleHealth(c)
            => UNCHANGED <<model, scaler, modelFile, scalerFile>>]_vars

\* health has been answered while no model is loaded
C8_Witness ==
  \E c \in Clients :
    AnsweredOn(c, "health") /\ ~Loaded /\ RespOf(c).status = 200

\* C10: whenever load_model() has returned, the in-memory model and scaler
\* come from the same training run.
C10_SameRun ==
  Served => model.run = scaler.run

\* C10 amended: the same, as long as house_price_model.pkl was never deleted
\* alone while a complete scaler.pkl stayed on disk.
C10_SameRunUnlessStaleScaler ==
  (Served /\ ~loneModelDelete)
    => IsArtifact(model) /\ IsArtifact(scaler) /\ model.run = scaler.run

\* a save was interrupted after its first file, and the next start found
\* the model file of that run alone and retrained
C10_Witness ==
  /\ Served /\ ~loneModelDelete
  /\ IsArtifact(atCheck[1]) /\ ~Exists(atCheck[2])
  /\ trainedRun = atCheck[1].run + 1
  /\ model.run = trainedRun


\* The three steps of the handler compose to predict_price: every finished
\* exchange carries the response the function gives on the current globals.
StepsAgreeWithPredictPrice ==
  \A c \in Clients :
    Answered(c) => RespOf(c) = predict_price(BodyOf(c), model, scaler)

====
